---- MODULE Spec2Model ----
(***************************************************************************)
(* Parallel-sweep coverage planner (algorithms/parallel_sweep.py).         *)
(*                                                                         *)
(* SingleParallelSweep is a Python generator.  A generator is modelled by  *)
(* the yield statement it is suspended at (field gen, named after the     *)
(* source line of that yield) and one resumption, generate_next_movement, *)
(* runs the code from that yield to the next one.  The tracked position   *)
(* drone_x, drone_y is therefore updated when the generator is resumed    *)
(* after a move has been yielded, exactly as in the source.               *)
(*                                                                         *)
(* MultipleParallelSweep is modelled by its constructor and by run(), one  *)
(* action per call into the environment.                                   *)
(***************************************************************************)
EXTENDS Integers, Naturals, FiniteSets, Sequences, TLC

\* ------------------------------------------------------------------ bounds
\* largest side of a standalone planner's sub-grid
MaxN == 5
\* largest environment grid side handed to the coordinator
MaxGrid == 6
\* largest number of agents of the environment
MaxAgents == 16
\* largest number of environment steps one run() is followed for
MaxSteps == 16
\* coordinates beyond which a planner that has left its grid is not followed
MaxCoord == MaxN + 2 * MaxGrid + 2
\* number of leading actions of a stream the consumer keeps
MaxPrefix == 4

VARIABLES
    parallel_sweep,      \* the SingleParallelSweep object and its generator frame
    prev_action,         \* consumer: the action yielded before the last one
    replay_x, replay_y,  \* consumer: position obtained by replaying the actions
    visited,             \* consumer: set of replayed positions so far
    stream,              \* consumer: the first MaxPrefix actions received
    searched,            \* consumer: replayed cells a Search was received on in this cycle
    env_grid_size,       \* env.grid_size
    n_drones,            \* len(env.possible_agents)
    grid_size_each_drone,\* MultipleParallelSweep.grid_size_each_drone
    ctor,                \* outcome of MultipleParallelSweep.__init__
    run_pc,              \* where run() is
    drones_positions,    \* argument of env.reset
    resets,              \* number of env.reset calls
    steps,               \* number of env.step calls
    actions,             \* the action map of the last env.step
    done,                \* the done map returned by the last env.step
    info_found,          \* info["Found"] returned by the last env.step
    done_seen,           \* some env.step so far returned a done map with a true value
    stream_len,          \* number of actions run() has drawn from the reference stream
    result               \* value returned by run()

plannerVars == <<parallel_sweep, prev_action, replay_x, replay_y, visited,
                 stream, searched>>
coordVars == <<env_grid_size, n_drones, grid_size_each_drone, ctor, run_pc,
               drones_positions, resets, steps, actions, done, info_found,
               done_seen, stream_len, result>>
vars == <<parallel_sweep, prev_action, replay_x, replay_y, visited,
          stream, searched,
          env_grid_size, n_drones, grid_size_each_drone, ctor, run_pc,
          drones_positions, resets, steps, actions, done, info_found,
          done_seen, stream_len, result>>

\* ------------------------------------------------------- PossibleActions
PossibleActions == {"left", "right", "up", "down", "search"}

\* PossibleActions.<name>.value
ActionValue(a) ==
    CASE a = "left" -> 0
      [] a = "right" -> 1
      [] a = "up" -> 2
      [] a = "down" -> 3
      [] a = "search" -> 4

\* ---------------------------------------------------- SingleParallelSweep
get_end_position_lastvertex(grid_size, last_vertice_x, last_vertice_y) ==
    <<last_vertice_x, last_vertice_y>>

get_end_position(grid_size, last_vertice_x, last_vertice_y) ==
    IF grid_size % 2 = 0
    THEN <<last_vertice_x, last_vertice_y - grid_size + 1>>
    ELSE <<last_vertice_x, last_vertice_y>>

\* SingleParallelSweep.__init__(DroneInfo(grid_size, initial_position, last_vertice))
\* together with a generator object that has not been started.
SingleParallelSweep(grid_size, initial_x, initial_y, last_x, last_y) ==
    [grid_size |-> grid_size,
     drone_x |-> initial_x,
     drone_y |-> initial_y,
     last_vertice_x |-> last_x,
     last_vertice_y |-> last_y,
     end_position_x |-> get_end_position(grid_size, last_x, last_y)[1],
     end_position_y |-> get_end_position(grid_size, last_x, last_y)[2],
     is_going_down |-> TRUE,
     is_going_right |-> TRUE,
     gen |-> "unstarted",
     yielded |-> "none"]

\* no SingleParallelSweep object exists
NoPlanner ==
    [grid_size |-> 0, drone_x |-> 0, drone_y |-> 0,
     last_vertice_x |-> 0, last_vertice_y |-> 0,
     end_position_x |-> 0, end_position_y |-> 0,
     is_going_down |-> TRUE, is_going_right |-> TRUE,
     gen |-> "absent", yielded |-> "none"]

check_if_done_column_only(self) ==
    IF self.is_going_down
    THEN LET reached_last_vertice == self.drone_y = self.end_position_y
         IN [done |-> reached_last_vertice,
             self |-> [self EXCEPT !.is_going_down = ~reached_last_vertice]]
    ELSE LET reached_initial_position == self.drone_y = 0
         IN [done |-> reached_initial_position,
             self |-> [self EXCEPT !.is_going_down = reached_initial_position]]

\* check_if_done: the returned value and the object after the call
check_if_done(self) ==
    IF self.is_going_down
    THEN LET reached_last_vertice ==
                 /\ self.drone_x = self.end_position_x
                 /\ self.drone_y = self.end_position_y
         IN [done |-> reached_last_vertice,
             self |-> [self EXCEPT !.is_going_down = ~reached_last_vertice]]
    ELSE LET reached_initial_position ==
                 self.drone_x = 0 /\ self.drone_y = 0
         IN [done |-> reached_initial_position,
             self |-> [self EXCEPT !.is_going_down = reached_initial_position]]

\* suspend at the yield of source line gen, handing out action a
Yield(self, gen, a) == [self EXCEPT !.gen = gen, !.yielded = a]

\* top of `while True`: the branch taken and its first yield (a search)
LoopTop(self) ==
    IF self.is_going_down
    THEN IF self.is_going_right
         THEN Yield(self, "L92", "search")
         ELSE Yield(self, "L102", "search")
    ELSE IF self.is_going_right
         THEN Yield(self, "L113", "search")
         ELSE Yield(self, "L123", "search")

AfterRight_keeps_direction(self, vertical_gen, vertical_action) ==
    LET moved == [self EXCEPT !.drone_y = self.drone_y + 1]
    IN IF moved.drone_y = moved.grid_size - 1
       THEN LET checked == check_if_done(moved)
            IN IF ~checked.done
               THEN Yield(checked.self, vertical_gen, vertical_action)
               ELSE LoopTop(checked.self)
       ELSE LoopTop(moved)

\* resumed after `yield right` (lines 94-99 and 115-120)
AfterRight(self, vertical_gen, vertical_action) ==
    LET moved == [self EXCEPT !.drone_y = self.drone_y + 1]
    IN IF moved.drone_y = moved.grid_size - 1
       THEN LET turned == [moved EXCEPT !.is_going_right = FALSE]
                checked == check_if_done(turned)
            IN IF ~checked.done
               THEN Yield(checked.self, vertical_gen, vertical_action)
               ELSE LoopTop(checked.self)
       ELSE LoopTop(moved)

AfterLeft_always_vertical(self, vertical_gen, vertical_action) ==
    LET moved == [self EXCEPT !.drone_y = self.drone_y - 1]
    IN IF moved.drone_y = 0
       THEN LET turned == [moved EXCEPT !.is_going_right = TRUE]
                checked == check_if_done(turned)
            IN Yield(checked.self, vertical_gen, vertical_action)
       ELSE LoopTop(moved)

\* resumed after `yield left` (lines 104-109 and 125-130)
AfterLeft(self, vertical_gen, vertical_action) ==
    LET moved == [self EXCEPT !.drone_y = self.drone_y - 1]
    IN IF moved.drone_y = 0
       THEN LET turned == [moved EXCEPT !.is_going_right = TRUE]
                checked == check_if_done(turned)
            IN IF ~checked.done
               THEN Yield(checked.self, vertical_gen, vertical_action)
               ELSE LoopTop(checked.self)
       ELSE LoopTop(moved)

AfterFirstSearch_falls_through(self) ==
    LoopTop([self EXCEPT !.is_going_right = TRUE])

\* resumed after the `yield search` of line 84: the `return` of line 85
AfterFirstSearch(self) == Yield(self, "returned", "StopIteration")

\* one next() on generate_next_movement(): the object and frame afterwards,
\* yielded being the action handed out ("StopIteration" when the generator returns)
generate_next_movement(self) ==
    CASE self.gen = "unstarted" ->
            LET checked == check_if_done(self)
            IN IF checked.done
               THEN Yield(checked.self, "L84", "search")
               ELSE LoopTop([checked.self EXCEPT !.is_going_right = TRUE])
      [] self.gen = "L84" -> AfterFirstSearch(self)
      [] self.gen = "L92" -> Yield(self, "L93", "right")
      [] self.gen = "L93" -> AfterRight(self, "L99", "down")
      [] self.gen = "L99" -> LoopTop([self EXCEPT !.drone_x = self.drone_x + 1])
      [] self.gen = "L102" -> Yield(self, "L103", "left")
      [] self.gen = "L103" -> AfterLeft(self, "L109", "down")
      [] self.gen = "L109" -> LoopTop([self EXCEPT !.drone_x = self.drone_x + 1])
      [] self.gen = "L113" -> Yield(self, "L114", "right")
      [] self.gen = "L114" -> AfterRight(self, "L120", "up")
      [] self.gen = "L120" -> LoopTop([self EXCEPT !.drone_x = self.drone_x - 1])
      [] self.gen = "L123" -> Yield(self, "L124", "left")
      [] self.gen = "L124" -> AfterLeft(self, "L130", "up")
      [] self.gen = "L130" -> LoopTop([self EXCEPT !.drone_x = self.drone_x - 1])
      [] self.gen = "returned" -> Yield(self, "returned", "StopIteration")

\* genarate_next_action: the value handed to the consumer for a yielded action
genarate_next_action(a) == ActionValue(a)

\* ------------------------------------------------- consumer-side replay
\* Left: y-1, Right: y+1, Up: x-1, Down: x+1, Search: no move
ReplayX(x, a) ==
    CASE a = "up" -> x - 1
      [] a = "down" -> x + 1
      [] OTHER -> x

ReplayY(y, a) ==
    CASE a = "left" -> y - 1
      [] a = "right" -> y + 1
      [] OTHER -> y

\* the planner is followed only while it is within MaxCoord of the origin
Followed(self) ==
    /\ self.drone_x <= MaxCoord /\ self.drone_x >= -MaxCoord
    /\ self.drone_y <= MaxCoord /\ self.drone_y >= -MaxCoord

\* consumer bookkeeping for the action self yielded last
Consume(old, self) ==
    /\ prev_action' = old.yielded
    /\ replay_x' = ReplayX(replay_x, self.yielded)
    /\ replay_y' = ReplayY(replay_y, self.yielded)
    /\ visited' = visited \cup {<<ReplayX(replay_x, self.yielded),
                                  ReplayY(replay_y, self.yielded)>>}
    /\ stream' = IF Len(stream) < MaxPrefix
                 THEN Append(stream, self.yielded)
                 ELSE stream
    /\ searched' =
          IF self.yielded = "search"
          THEN (IF ~old.is_going_down /\ self.is_going_down
                THEN {}
                ELSE searched) \cup {<<replay_x, replay_y>>}
          ELSE searched

\* ------------------------------------------------------ standalone planner
\* a planner on an n x n sub-grid: DroneInfo(n, (0, 0), (n - 1, n - 1))
PlannerSizes == -1 .. MaxN

NoCoordinator ==
    /\ env_grid_size = 0
    /\ n_drones = 0
    /\ grid_size_each_drone = 0
    /\ ctor = "absent"
    /\ run_pc = "absent"
    /\ drones_positions = <<>>
    /\ resets = 0
    /\ steps = 0
    /\ actions = <<>>
    /\ done = <<>>
    /\ info_found = "unbound"
    /\ done_seen = FALSE
    /\ stream_len = 0
    /\ result = "none"

InitPlanner ==
    /\ \E n \in PlannerSizes :
          parallel_sweep = SingleParallelSweep(n, 0, 0, n - 1, n - 1)
    /\ prev_action = "none"
    /\ replay_x = 0
    /\ replay_y = 0
    /\ visited = {<<0, 0>>}
    /\ stream = <<>>
    /\ searched = {}
    /\ NoCoordinator

\* the consumer draws the next action: one next() on the generator
Pull ==
    /\ ctor = "absent"
    /\ parallel_sweep.gen # "returned"
    /\ Followed(parallel_sweep)
    /\ parallel_sweep' = generate_next_movement(parallel_sweep)
    /\ Consume(parallel_sweep, parallel_sweep')
    /\ UNCHANGED coordVars

NextPlanner == Pull

SpecPlanner == InitPlanner /\ [][NextPlanner]_vars

\* the consumer keeps drawing actions for as long as the stream has one
FairSpecPlanner == SpecPlanner /\ WF_vars(Pull)

\* --------------------------------------------------- MultipleParallelSweep
GridSizes == 1 .. MaxGrid
AgentCounts == 0 .. MaxAgents

\* floor of math.sqrt(n)
ISqrt(n) == CHOOSE r \in 0 .. n : r * r <= n /\ (r + 1) * (r + 1) > n

AgentError == "The number of agents must be 1 or 2 or a multiple of 4"
GridError == "The grid size must be a multiple of the number of agents"

get_each_drone_grid_size_no_agent_check(grid_size, n) ==
    IF n = 0
    THEN [error |-> "ZeroDivisionError", value |-> 0]
    ELSE IF n = 2
    THEN IF grid_size % 2 # 0
         THEN [error |-> GridError, value |-> 0]
         ELSE [error |-> "none", value |-> grid_size \div 2]
    ELSE IF ISqrt(n) * ISqrt(n) = n /\ grid_size % ISqrt(n) = 0
         THEN [error |-> "none", value |-> grid_size \div ISqrt(n)]
         ELSE [error |-> GridError, value |-> 0]

get_each_drone_grid_size_floor_sqrt(grid_size, n) ==
    IF n \notin {1, 2} /\ n % 4 # 0
    THEN [error |-> AgentError, value |-> 0]
    ELSE IF n = 0
    THEN [error |-> "ZeroDivisionError", value |-> 0]
    ELSE LET divisor == IF n = 2 THEN 2 ELSE ISqrt(n)
         IN IF grid_size % divisor # 0
            THEN [error |-> GridError, value |-> 0]
            ELSE [error |-> "none", value |-> grid_size \div divisor]

\* get_each_drone_grid_size: the exception raised ("none" when it returns) and
\* the value returned.  grid_size / math.sqrt(n) is a whole number exactly when
\* n is a perfect square whose root divides grid_size (grid_size >= 1).
get_each_drone_grid_size(grid_size, n) ==
    IF n \notin {1, 2} /\ n % 4 # 0
    THEN [error |-> AgentError, value |-> 0]
    ELSE IF n = 0
    THEN [error |-> "ZeroDivisionError", value |-> 0]
    ELSE IF n = 2
    THEN IF grid_size % 2 # 0
         THEN [error |-> GridError, value |-> 0]
         ELSE [error |-> "none", value |-> grid_size \div 2]
    ELSE IF ISqrt(n) * ISqrt(n) = n /\ grid_size % ISqrt(n) = 0
         THEN [error |-> "none", value |-> grid_size \div ISqrt(n)]
         ELSE [error |-> GridError, value |-> 0]

\* get_first_drone_info: <<grid_size, initial_position, last_vertice>>
get_first_drone_info(each, n) ==
    IF n # 2
    THEN <<each, <<0, 0>>, <<each - 1, each - 1>>>>
    ELSE <<each, <<0, 0>>, <<each * 2 - 1, 0>>>>

\* number of values of range(0, stop, step), step >= 1
RangeLen(stop, step) == (stop + step - 1) \div step

\* get_drones_initial_positions: the list, in the order it is built
get_drones_initial_positions(grid_size, each, n) ==
    IF n = 2
    THEN <<<<0, 0>>, <<each, 0>>>>
    ELSE LET cnt == RangeLen(grid_size, each)
         IN [k \in 1 .. cnt * cnt |->
                <<((k - 1) \div cnt) * each, ((k - 1) % cnt) * each>>]

generate_next_action_skip_last(n, action) ==
    [i \in 0 .. n - 2 |-> action]

\* generate_next_action: the map {f"drone{i}": action}, keyed here by i
generate_next_action(n, action) ==
    [i \in 0 .. n - 1 |-> action]

any_is_all(done_map) == \A i \in DOMAIN done_map : done_map[i]

\* any(done.values())
any(done_map) == \E i \in DOMAIN done_map : done_map[i]

\* done maps the environment returns: nobody, one agent, or everybody done
DoneMaps(n) ==
    {[i \in 0 .. n - 1 |-> FALSE], [i \in 0 .. n - 1 |-> TRUE]}
        \cup {[i \in 0 .. n - 1 |-> i = j] : j \in 0 .. n - 1}

\* the reference planner as generate_next_action() holds it; it is built by
\* the first next() on that generator
ReferencePlanner ==
    IF parallel_sweep.gen = "absent"
    THEN LET info == get_first_drone_info(grid_size_each_drone, n_drones)
         IN SingleParallelSweep(info[1], info[2][1], info[2][2],
                                info[3][1], info[3][2])
    ELSE parallel_sweep

Init ==
    /\ parallel_sweep = NoPlanner
    /\ prev_action = "none"
    /\ replay_x = 0
    /\ replay_y = 0
    /\ visited = {}
    /\ stream = <<>>
    /\ searched = {}
    /\ env_grid_size \in GridSizes
    /\ n_drones \in AgentCounts
    /\ grid_size_each_drone = 0
    /\ ctor = "pending"
    /\ run_pc = "idle"
    /\ drones_positions = <<>>
    /\ resets = 0
    /\ steps = 0
    /\ actions = <<>>
    /\ done = <<>>
    /\ info_found = "unbound"
    /\ done_seen = FALSE
    /\ stream_len = 0
    /\ result = "none"

\* MultipleParallelSweep.__init__(env)
Construct ==
    /\ ctor = "pending"
    /\ LET r == get_each_drone_grid_size(env_grid_size, n_drones)
       IN /\ ctor' = IF r.error = "none" THEN "ok" ELSE r.error
          /\ grid_size_each_drone' = r.value
    /\ UNCHANGED <<plannerVars, env_grid_size, n_drones, run_pc,
                   drones_positions, resets, steps, actions, done,
                   info_found, done_seen, stream_len, result>>

\* run(), lines 231-232: env.reset(drones_positions=...)
RunReset ==
    /\ ctor = "ok"
    /\ run_pc = "idle"
    /\ drones_positions' =
          get_drones_initial_positions(env_grid_size, grid_size_each_drone,
                                       n_drones)
    /\ resets' = resets + 1
    /\ run_pc' = "loop"
    /\ visited' = {<<0, 0>>}
    /\ UNCHANGED <<parallel_sweep, prev_action, replay_x, replay_y,
                   stream, searched, env_grid_size, n_drones, grid_size_each_drone, ctor,
                   steps, actions, done, info_found, done_seen, stream_len,
                   result>>

\* run(), one iteration of the for loop: the reference stream yields an
\* action, it is broadcast, env.step is called, and a true done value breaks
\* out of the loop and returns info["Found"]
RunStep ==
    /\ run_pc = "loop"
    /\ steps < MaxSteps
    /\ Followed(parallel_sweep)
    /\ LET next == generate_next_movement(ReferencePlanner)
       IN /\ next.yielded # "StopIteration"
          /\ parallel_sweep' = next
          /\ Consume(ReferencePlanner, next)
          /\ stream_len' = stream_len + 1
          /\ actions' = generate_next_action(n_drones,
                                             genarate_next_action(next.yielded))
    /\ steps' = steps + 1
    /\ \E d \in DoneMaps(n_drones), found \in BOOLEAN :
          /\ done' = d
          /\ info_found' = found
          /\ done_seen' = (done_seen \/ \E i \in DOMAIN d : d[i])
          /\ IF any(d)
             THEN run_pc' = "returned" /\ result' = found
             ELSE UNCHANGED <<run_pc, result>>
    /\ UNCHANGED <<env_grid_size, n_drones, grid_size_each_drone, ctor,
                   drones_positions, resets>>

\* run(): the reference stream is exhausted, the for loop ends and
\* info["Found"] of the last step is returned
RunExhausted ==
    /\ run_pc = "loop"
    /\ LET next == generate_next_movement(ReferencePlanner)
       IN /\ next.yielded = "StopIteration"
          /\ parallel_sweep' = next
    /\ run_pc' = "returned"
    /\ result' = info_found
    /\ UNCHANGED <<prev_action, replay_x, replay_y, visited, stream,
                   searched, env_grid_size,
                   n_drones, grid_size_each_drone, ctor, drones_positions,
                   resets, steps, actions, done, info_found, done_seen,
                   stream_len>>

Next == Construct \/ RunReset \/ RunStep \/ RunExhausted

Spec == Init /\ [][Next]_vars

\* ================================================================ claims
Moves == {"left", "right", "up", "down"}

\* the cells of the n x n sub-grid
Cells(n) == {<<x, y>> : x \in 0 .. n - 1, y \in 0 .. n - 1}

\* C1: for a planner on an n x n sub-grid, n >= 1, whenever the phase flips
\* from SweepingDown to SweepingUp (the first flip included) the replay of the
\* emitted actions has visited every cell of the sub-grid and stands on
\* endPosition.
DownSweepCoversGrid ==
    [][(/\ parallel_sweep.grid_size >= 1
        /\ parallel_sweep.is_going_down
        /\ ~parallel_sweep'.is_going_down)
       => /\ Cells(parallel_sweep.grid_size) \subseteq visited'
          /\ replay_x' = parallel_sweep.end_position_x
          /\ replay_y' = parallel_sweep.end_position_y]_vars

\* a 4 x 4 planner has just finished its down-sweep on endPosition (3, 0)
DownSweepCoversGridWitness ==
    /\ parallel_sweep.grid_size = 4
    /\ ~parallel_sweep.is_going_down
    /\ visited = Cells(4)
    /\ replay_x = 3 /\ replay_y = 0
    /\ parallel_sweep.gen = "L113"
    /\ prev_action = "left"

\* C2: the tracked position of the reference planner the coordinator builds
\* stays inside [0, gridSize) x [0, gridSize), gridSize being the planner's own.
TrackedPositionInBounds ==
    parallel_sweep.gen # "absent"
       => /\ 0 <= parallel_sweep.drone_x
          /\ parallel_sweep.drone_x < parallel_sweep.grid_size
          /\ 0 <= parallel_sweep.drone_y
          /\ parallel_sweep.drone_y < parallel_sweep.grid_size

\* world cells agent k (1-based, in the order of drones_positions) has visited
WorldCells(k) ==
    {<<drones_positions[k][1] + c[1], drones_positions[k][2] + c[2]>> :
        c \in visited}

\* C3: the agents' visited world cells are pairwise disjoint, lie inside the
\* full grid, and once the reference planner has finished a down-sweep their
\* union is the full grid.
AgentsTileGrid ==
    run_pc \in {"loop", "returned"}
       => /\ \A k \in DOMAIN drones_positions :
                WorldCells(k) \subseteq Cells(env_grid_size)
          /\ \A j, k \in DOMAIN drones_positions :
                j # k => WorldCells(j) \cap WorldCells(k) = {}
          /\ (parallel_sweep.gen # "absent" /\ ~parallel_sweep.is_going_down)
                => UNION {WorldCells(k) : k \in DOMAIN drones_positions}
                      = Cells(env_grid_size)

\* C4: on an n x n sub-grid with n >= 2 both phases occur infinitely often,
\* the phase flips to SweepingUp only on endPosition and back only on (0,0),
\* and no Down is emitted in SweepingUp (no Up in SweepingDown).
PhaseAlternatesForever ==
    /\ []<>(parallel_sweep.grid_size >= 2 => parallel_sweep.is_going_down)
    /\ []<>(parallel_sweep.grid_size >= 2 => ~parallel_sweep.is_going_down)
    /\ [][parallel_sweep.grid_size >= 2
            => /\ (parallel_sweep.is_going_down /\ ~parallel_sweep'.is_going_down)
                  => /\ parallel_sweep'.drone_x = parallel_sweep.end_position_x
                     /\ parallel_sweep'.drone_y = parallel_sweep.end_position_y
               /\ (~parallel_sweep.is_going_down /\ parallel_sweep'.is_going_down)
                  => /\ parallel_sweep'.drone_x = 0
                     /\ parallel_sweep'.drone_y = 0
               /\ ~parallel_sweep'.is_going_down
                  => parallel_sweep'.yielded # "down"
               /\ parallel_sweep'.is_going_down
                  => parallel_sweep'.yielded # "up"]_vars

\* a 3 x 3 planner is back on (0,0) in SweepingDown after a full cycle
PhaseAlternatesForeverWitness ==
    /\ parallel_sweep.grid_size = 3
    /\ parallel_sweep.is_going_down
    /\ parallel_sweep.drone_x = 0 /\ parallel_sweep.drone_y = 0
    /\ prev_action = "left"
    /\ visited = Cells(3)

\* C5: every positional move of the stream is immediately preceded by a Search.
SearchBeforeEveryMove ==
    (parallel_sweep.grid_size >= 1 /\ parallel_sweep.yielded \in Moves)
       => prev_action = "search"

\* C6: run() has submitted one step per action drawn from the reference
\* stream; once a step returned a done map with a true value that step is the
\* last one and run() has returned; what run() returns is the Found flag of
\* the last submitted step.
RunStopsAtFirstDone ==
    /\ steps = stream_len
    /\ done_seen => (run_pc = "returned" /\ \E i \in DOMAIN done : done[i])
    /\ run_pc = "returned" => result = info_found

\* four agents, run() stopped by a step in which only some agents were done
RunStopsAtFirstDoneWitness ==
    /\ n_drones = 4
    /\ run_pc = "returned"
    /\ done_seen
    /\ steps >= 3
    /\ result = TRUE
    /\ \E i \in DOMAIN done : ~done[i]

\* the reference planner sweeps a single cell
SingleCell == grid_size_each_drone = 1 /\ n_drones # 2

\* C7 (as stated): while no step reported done, run() has not returned.
RunNeverReturnsByItself ==
    run_pc = "returned" => done_seen

\* C7 (amended): while no step reported done, run() returns only when the
\* reference planner sweeps a single cell, and then after exactly one step;
\* in every other configuration the reference stream always has a next action.
RunReturnsByItselfOnlyOnSingleCell ==
    /\ (run_pc = "returned" /\ ~done_seen) => (SingleCell /\ steps = 1)
    /\ (run_pc = "loop" /\ ~SingleCell)
          => generate_next_movement(ReferencePlanner).yielded \in PossibleActions

\* four agents on 2 x 2 sub-grids still stepping after 12 steps without done
RunReturnsByItselfOnlyOnSingleCellWitness ==
    /\ n_drones = 4
    /\ grid_size_each_drone = 2
    /\ run_pc = "loop"
    /\ ~done_seen
    /\ steps >= 12

\* C8: the action map of a step has exactly the keys drone0 .. drone{n-1} and
\* maps each to the code of the action the reference planner yielded.
BroadcastSameAction ==
    (steps > 0 /\ parallel_sweep.yielded \in PossibleActions)
       => /\ DOMAIN actions = 0 .. n_drones - 1
          /\ \A i \in DOMAIN actions :
                actions[i] = ActionValue(parallel_sweep.yielded)

\* four agents are all told Down (code 3)
BroadcastSameActionWitness ==
    /\ n_drones = 4
    /\ parallel_sweep.yielded = "down"
    /\ DOMAIN actions = 0 .. 3
    /\ \A i \in 0 .. 3 : actions[i] = 3

\* C9: with an agent count that is not 1, not 2 and not a multiple of 4 the
\* constructor fails with the agent-count error, for every grid size, and
\* nothing has been reset, stepped or produced.
InvalidAgentCountFailsAtConstruction ==
    (ctor # "pending" /\ n_drones \notin {1, 2} /\ n_drones % 4 # 0)
       => /\ ctor = AgentError
          /\ resets = 0
          /\ steps = 0
          /\ stream_len = 0
          /\ actions = <<>>
          /\ parallel_sweep = NoPlanner

\* nine agents on a 3 x 3 grid (a square count that would divide the grid)
InvalidAgentCountFailsAtConstructionWitness ==
    /\ n_drones = 9
    /\ env_grid_size = 3
    /\ ctor = AgentError

\* C10: no planner with a non-positive gridSize ever produces an action.
NonPositiveGridSizeRejected ==
    parallel_sweep.grid_size <= 0 => parallel_sweep.yielded = "none"

\* gridSize / divisor is a whole number, divisor being 2 for two agents and
\* the real square root of the agent count otherwise
Integral(g, n) ==
    IF n = 2
    THEN \E s \in 1 .. g : s * 2 = g
    ELSE \E s \in 1 .. g : s * s * n = g * g

\* C11: for a positive agent count that is 1, 2 or a multiple of 4, the
\* constructor returns a positive subGridSize with subGridSize * divisor =
\* gridSize when gridSize / divisor is whole, and fails with the grid-size
\* error when it is not (8 and 12 agents always).
PartitionArithmetic ==
    (/\ ctor # "pending"
     /\ n_drones >= 1
     /\ (n_drones \in {1, 2} \/ n_drones % 4 = 0))
       => IF Integral(env_grid_size, n_drones)
          THEN /\ ctor = "ok"
               /\ grid_size_each_drone >= 1
               /\ n_drones = 2 => grid_size_each_drone * 2 = env_grid_size
               /\ n_drones # 2 =>
                     grid_size_each_drone * grid_size_each_drone * n_drones
                        = env_grid_size * env_grid_size
          ELSE ctor = GridError

\* four agents on a 6 x 6 grid get 3 x 3 sub-grids
PartitionArithmeticWitness ==
    /\ n_drones = 4
    /\ env_grid_size = 6
    /\ ctor = "ok"
    /\ grid_size_each_drone = 3

\* C12: on the 1 x 1 sub-grid the stream is one Search and then its end; no
\* move is produced and neither the tracked nor the replayed position leaves
\* (0,0).
SingleCellStream ==
    parallel_sweep.grid_size = 1
       => /\ parallel_sweep.gen = "unstarted" => stream = <<>>
          /\ parallel_sweep.gen = "L84" => stream = <<"search">>
          /\ parallel_sweep.gen = "returned"
                => stream = <<"search", "StopIteration">>
          /\ parallel_sweep.gen \in {"unstarted", "L84", "returned"}
          /\ parallel_sweep.yielded \notin Moves
          /\ parallel_sweep.drone_x = 0 /\ parallel_sweep.drone_y = 0
          /\ replay_x = 0 /\ replay_y = 0

\* the 1 x 1 planner's generator has returned after its one Search
SingleCellStreamWitness ==
    /\ parallel_sweep.grid_size = 1
    /\ parallel_sweep.gen = "returned"
    /\ prev_action = "search"
    /\ stream = <<"search", "StopIteration">>

\* the step in which the generator, resumed after a horizontal move, finds
\* itself on the column boundary that move was heading for
ArrivesAtBoundary ==
    /\ parallel_sweep.grid_size >= 1
    /\ \/ /\ parallel_sweep.yielded = "right"
          /\ parallel_sweep'.drone_y = parallel_sweep.grid_size - 1
       \/ /\ parallel_sweep.yielded = "left"
          /\ parallel_sweep'.drone_y = 0

\* the vertical action of the phase the planner is in
VerticalOfPhase == IF parallel_sweep.is_going_down THEN "down" ELSE "up"

\* the boundary cell arrived at is the turnaround of the current phase
ArrivesAtTurnaround ==
    IF parallel_sweep.is_going_down
    THEN /\ parallel_sweep'.drone_x = parallel_sweep.end_position_x
         /\ parallel_sweep'.drone_y = parallel_sweep.end_position_y
    ELSE /\ parallel_sweep'.drone_x = 0
         /\ parallel_sweep'.drone_y = 0

\* C13 (as stated): on every arrival at a column boundary the next action is
\* the vertical action of the phase and horizontalDirection flips.
BoundaryAlwaysTurnsVertical ==
    [][ArrivesAtBoundary
         => /\ parallel_sweep'.yielded = VerticalOfPhase
            /\ parallel_sweep'.is_going_right = ~parallel_sweep.is_going_right]_vars

\* C13 (amended): on every arrival at a column boundary horizontalDirection
\* flips and the next action is the vertical action of the phase, except on
\* the turnaround cell, where the phase flips and the next action is a
\* Search with x unchanged; the replayed column never leaves [0, gridSize).
BoundaryTurnsVerticalUnlessTurnaround ==
    [][/\ ArrivesAtBoundary
            => /\ parallel_sweep'.is_going_right = ~parallel_sweep.is_going_right
               /\ IF ArrivesAtTurnaround
                  THEN /\ parallel_sweep'.yielded = "search"
                       /\ parallel_sweep'.is_going_down
                             = ~parallel_sweep.is_going_down
                       /\ parallel_sweep'.drone_x = parallel_sweep.drone_x
                  ELSE /\ parallel_sweep'.yielded = VerticalOfPhase
                       /\ parallel_sweep'.is_going_down
                             = parallel_sweep.is_going_down
       /\ parallel_sweep.grid_size >= 1
            => (replay_y' >= 0 /\ replay_y' < parallel_sweep.grid_size)]_vars

\* a 3 x 3 planner in SweepingUp has reached column 0 on row 2 and emits Up
BoundaryTurnsVerticalUnlessTurnaroundWitness ==
    /\ parallel_sweep.grid_size = 3
    /\ ~parallel_sweep.is_going_down
    /\ parallel_sweep.yielded = "up"
    /\ prev_action = "left"
    /\ parallel_sweep.is_going_right
    /\ parallel_sweep.drone_x = 2 /\ parallel_sweep.drone_y = 0

\* the planner of the concrete scenario, after at least four pulls
TwoByTwoAfterFourPulls ==
    /\ parallel_sweep.grid_size = 2
    /\ parallel_sweep.last_vertice_x = 1
    /\ parallel_sweep.last_vertice_y = 1
    /\ Len(stream) >= 4

TallStripSwept ==
    (n_drones = 2 /\ parallel_sweep.gen # "absent")
       => /\ parallel_sweep.drone_x >= 0
          /\ parallel_sweep.drone_x <= 2 * grid_size_each_drone - 1
          /\ parallel_sweep.drone_y >= 0
          /\ parallel_sweep.drone_y < grid_size_each_drone

\* C16: on an n x n sub-grid with n >= 2 the stream never ends: in every
\* state the generator has not returned and the next pull hands out an action.
StreamNeverEnds ==
    parallel_sweep.grid_size >= 2
       => /\ parallel_sweep.gen \notin {"L84", "returned"}
          /\ parallel_sweep.yielded # "StopIteration"
          /\ Followed(parallel_sweep)
          /\ generate_next_movement(parallel_sweep).yielded \in PossibleActions

\* a 5 x 5 planner in its second down-sweep, about to be pulled again
StreamNeverEndsWitness ==
    /\ parallel_sweep.grid_size = 5
    /\ parallel_sweep.is_going_down
    /\ visited = Cells(5)
    /\ parallel_sweep.yielded = "down"
    /\ parallel_sweep.drone_x = 2

\* C17: between two consecutive planner states the phase changes from
\* SweepingDown to SweepingUp only with the position on endPosition, and from
\* SweepingUp to SweepingDown only with the position on (0,0).
PhaseFlipsOnlyOnTurnaround ==
    [][/\ (parallel_sweep.is_going_down /\ ~parallel_sweep'.is_going_down)
            => /\ parallel_sweep'.drone_x = parallel_sweep'.end_position_x
               /\ parallel_sweep'.drone_y = parallel_sweep'.end_position_y
       /\ (~parallel_sweep.is_going_down /\ parallel_sweep'.is_going_down)
            => /\ parallel_sweep'.drone_x = 0
               /\ parallel_sweep'.drone_y = 0]_vars

\* a 2 x 2 planner has just flipped back to SweepingDown on (0,0)
PhaseFlipsOnlyOnTurnaroundWitness ==
    /\ parallel_sweep.grid_size = 2
    /\ parallel_sweep.is_going_down
    /\ parallel_sweep.drone_x = 0 /\ parallel_sweep.drone_y = 0
    /\ parallel_sweep.gen = "L92"
    /\ prev_action = "left"
    /\ visited = Cells(2)

\* the planner has turned around on this cell in the previous step: it holds
\* the Search that followed the horizontal move which brought it here
JustTurnedAround ==
    /\ parallel_sweep.grid_size >= 1
    /\ parallel_sweep.yielded = "search"
    /\ prev_action \in {"left", "right"}
    /\ \/ /\ ~parallel_sweep.is_going_down
          /\ parallel_sweep.drone_x = parallel_sweep.end_position_x
          /\ parallel_sweep.drone_y = parallel_sweep.end_position_y
       \/ /\ parallel_sweep.is_going_down
          /\ parallel_sweep.drone_x = 0
          /\ parallel_sweep.drone_y = 0

\* the horizontal move opposite to a
Reversed(a) == IF a = "left" THEN "right" ELSE "left"

\* C18: on arriving at a column boundary that is the turnaround, no vertical
\* action is emitted and x is unchanged; the next positional move is the
\* horizontal move in the reversed direction, on the same row.
TurnaroundReversesOnSameRow ==
    [][/\ (ArrivesAtBoundary /\ ArrivesAtTurnaround)
            => /\ parallel_sweep'.yielded = "search"
               /\ parallel_sweep'.drone_x = parallel_sweep.drone_x
               /\ replay_x' = replay_x
       /\ JustTurnedAround
            => /\ parallel_sweep'.yielded = Reversed(prev_action)
               /\ parallel_sweep'.drone_x = parallel_sweep.drone_x
               /\ replay_x' = replay_x]_vars

\* a 4 x 4 planner that turned around on endPosition (3,0) has emitted Right
TurnaroundReversesOnSameRowWitness ==
    /\ parallel_sweep.grid_size = 4
    /\ ~parallel_sweep.is_going_down
    /\ parallel_sweep.drone_x = 3 /\ parallel_sweep.drone_y = 0
    /\ parallel_sweep.yielded = "right"
    /\ prev_action = "search"
    /\ replay_x = 3 /\ replay_y = 1

\* C19: on an n x n sub-grid with n >= 2, when a cycle ends (the phase flips
\* back to SweepingDown on (0,0)) a Search has been emitted during that cycle
\* on every cell of the sub-grid.
EveryCellSearchedInCycle ==
    [][(/\ parallel_sweep.grid_size >= 2
        /\ ~parallel_sweep.is_going_down
        /\ parallel_sweep'.is_going_down)
       => Cells(parallel_sweep.grid_size) \subseteq searched]_vars

\* a 4 x 4 planner in SweepingUp of a later cycle with every cell searched
EveryCellSearchedInCycleWitness ==
    /\ parallel_sweep.grid_size = 4
    /\ ~parallel_sweep.is_going_down
    /\ searched = Cells(4)
    /\ parallel_sweep.yielded = "left"
    /\ parallel_sweep.drone_x = 0 /\ parallel_sweep.drone_y = 1

====
